---- MODULE Spec2Model ----
(***************************************************************************)
(* enproto: a length-prefixed, versioned binary framing layer (Framer)     *)
(* over an io.ReadWriter.  The model follows the buffered Framer, which    *)
(* wraps the transport in a bufio.Reader and a bufio.Writer of 64 KiB and  *)
(* keeps a reusable payload buffer for ReadFrameSharedBuffer.              *)
(*                                                                         *)
(* Byte strings ([]byte, the transport's content, the bufio buffers) are   *)
(* kept run-length encoded: a sequence of runs [b |-> byte, n |-> count]   *)
(* with n >= 1 and no two neighbouring runs of the same byte.  The         *)
(* encoding is canonical, so two byte strings are equal exactly when their *)
(* encodings are equal, and it lets the model hold payloads of the real    *)
(* sizes (64 KiB, 100 MiB) the code's constants are about.                 *)
(***************************************************************************)
EXTENDS Integers, Sequences, FiniteSets, TLC

\* ------------------------------------------------------------ constants
Magic == 22873                      \* 0x5959
ProtocolVersion == 1
maxAllowed == 100 * 1024 * 1024     \* 100 MiB
bufSize == 64 * 1024                \* bufio.NewReaderSize / NewWriterSize
headerLen == 8                      \* var header [8]byte

ErrBadMagic == "invalid magic number"
ErrBadVersion == "unsupported protocol version"
ErrTooLarge == "frame too large"
ErrEOF == "EOF"
ErrUnexpectedEOF == "unexpected EOF"
ErrClosedPipe == "io: read/write on closed pipe"
nil == "nil"

\* ------------------------------------------------------------ byte strings
\* make([]byte, n) filled with b: n copies of byte b.
Rep(b, n) == IF n = 0 THEN <<>> ELSE <<[b |-> b, n |-> n]>>

\* len(s)
RECURSIVE BLen(_)
BLen(s) == IF s = <<>> THEN 0 ELSE Head(s).n + BLen(Tail(s))

\* append(s, t...)
Cat(s, t) ==
    IF s = <<>> THEN t
    ELSE IF t = <<>> THEN s
    ELSE IF s[Len(s)].b = t[1].b
         THEN SubSeq(s, 1, Len(s) - 1)
              \o <<[b |-> t[1].b, n |-> s[Len(s)].n + t[1].n]>>
              \o Tail(t)
         ELSE s \o t

\* s[:k]  (k clipped to len(s))
RECURSIVE Take(_, _)
Take(s, k) ==
    IF k <= 0 \/ s = <<>> THEN <<>>
    ELSE IF Head(s).n <= k
         THEN <<Head(s)>> \o Take(Tail(s), k - Head(s).n)
         ELSE <<[b |-> Head(s).b, n |-> k]>>

\* s[k:]  (k clipped to len(s))
RECURSIVE Drop(_, _)
Drop(s, k) ==
    IF k <= 0 \/ s = <<>> THEN s
    ELSE IF Head(s).n <= k
         THEN Drop(Tail(s), k - Head(s).n)
         ELSE <<[b |-> Head(s).b, n |-> Head(s).n - k]>> \o Tail(s)

\* s[i], 0 <= i < len(s)
RECURSIVE At(_, _)
At(s, i) == IF i < Head(s).n THEN Head(s).b ELSE At(Tail(s), i - Head(s).n)

\* []byte{l[1], l[2], ...}
RECURSIVE Bytes(_)
Bytes(l) == IF l = <<>> THEN <<>> ELSE Cat(Rep(Head(l), 1), Bytes(Tail(l)))

\* ------------------------------------------------------------ encoding/binary
\* binary.BigEndian.PutUint16
PutUint16(v) == <<(v \div 256) % 256, v % 256>>
\* Uint16 that reads the first byte twice.
Uint16_firstTwice(h, off) == At(h, off) * 256 + At(h, off)
\* binary.BigEndian.Uint16
Uint16(h, off) == At(h, off) * 256 + At(h, off + 1)
\* binary.BigEndian.PutUint32 (v < 2^31 in every state of the model)
PutUint32(v) ==
    <<(v \div 16777216) % 256, (v \div 65536) % 256, (v \div 256) % 256, v % 256>>
\* binary.BigEndian.Uint32 (first byte < 128 in every state of the model)
Uint32(h, off) ==
    At(h, off) * 16777216 + At(h, off + 1) * 65536
    + At(h, off + 2) * 256 + At(h, off + 3)

\* header with the version and type bytes in each other's place.
header_swapped(magic, version, msgType, length) ==
    Bytes(PutUint16(magic) \o <<msgType, version>> \o PutUint32(length))

\* The 8 header bytes WriteFrameBuffered builds.
header(magic, version, msgType, length) ==
    Bytes(PutUint16(magic) \o <<version, msgType>> \o PutUint32(length))

\* ------------------------------------------------------------ bounds, inputs
MaxOps == 2                         \* calls made on the codec and its transport

\* wire bytes of a frame with the given header fields and body
wireFrame(magic, version, msgType, length, body) ==
    Cat(header(magic, version, msgType, length), body)

\* Frames the callers write: empty, short, the largest payload that fits the
\* write buffer behind its header, one byte more, the ceiling, one byte more.
Frames ==
    { [typ |-> 0,   pay |-> <<>>],
      [typ |-> 1,   pay |-> Bytes(<<1, 2>>)],
      [typ |-> 255, pay |-> Rep(7, bufSize - headerLen)],
      [typ |-> 1,   pay |-> Rep(7, bufSize - headerLen + 1)],
      [typ |-> 255, pay |-> Rep(9, maxAllowed)],
      [typ |-> 2,   pay |-> Rep(9, maxAllowed + 1)] }

\* What the transport holds when the codec is built over it (the tests fill
\* a bytes.Buffer by hand before NewFramer): nothing; a frame whose header is
\* wrong in magic, version or length, with bytes behind it; well-formed
\* frames; frames cut short; two well-formed frames.
BadMagics == {Magic - 1, Magic - 256}
Streams ==
    { <<>> }
    \cup { wireFrame(m, v, 1, l, Bytes(<<1, 2>>)) :
             m \in BadMagics,
             v \in {ProtocolVersion, ProtocolVersion + 1},
             l \in {0, maxAllowed + 1} }
    \cup { wireFrame(Magic, ProtocolVersion + 1, 1, l, Bytes(<<1, 2>>)) :
             l \in {0, maxAllowed + 1} }
    \cup { wireFrame(Magic, ProtocolVersion, 1, maxAllowed + 1, b) :
             b \in { <<>>, Bytes(<<1, 2>>), Rep(9, 12),
                     wireFrame(Magic, ProtocolVersion, 7, 2, Bytes(<<1, 2>>)) } }
    \cup { wireFrame(Magic, ProtocolVersion, 3, maxAllowed, b) :
             b \in { Bytes(<<1, 2>>), Rep(9, maxAllowed),
                     Cat(Rep(9, maxAllowed), Bytes(<<1, 2>>)) } }
    \cup { Take(wireFrame(Magic, ProtocolVersion, 1, 2, <<>>), n) : n \in {3, 8} }
    \cup { Cat(wireFrame(Magic, ProtocolVersion, 4, BLen(p), p),
               wireFrame(Magic, ProtocolVersion, 5, BLen(q), q)) :
             p \in { Bytes(<<1, 2>>), Bytes(<<5, 6, 7>>) },
             q \in { <<>>, Bytes(<<3, 4>>), Bytes(<<5, 6, 7, 8, 9>>) } }

VARIABLES
    wire,      \* the transport (a bytes.Buffer): bytes written to it, not yet read
    broken,    \* the transport's Write fails
    bw,        \* f.bw, the bufio.Writer: [buf, err]
    br,        \* f.br, the bufio.Reader: its buffered, undecoded bytes buf[r:w]
    rbuf,      \* f.rbuf: [arr, cap], arr = 0 for the nil slice
    heap,      \* backing arrays of the live slices: id -> content
    last,      \* the last call: its arguments, results and measurements
    prev,      \* the call before it
    held,      \* a payload slice a caller kept from a ReadFrame
    nops,      \* number of calls so far
    passed,    \* the frames passed to WriteFrame and WriteFrameBuffered, in call order
    delivered  \* the bytes f.bw has handed to the transport, in order

\* Two codecs, each over a transport of its own, called from two goroutines.
VARIABLES
    inst,      \* codec i: [wire, bw, br, res], res the result of its last call
    alone,     \* codec i as its calls leave it when nothing else runs
    hdrs,      \* header arrays: 0 the package-level one, i the local one of
               \* the call running on codec i
    run,       \* the call running on codec i: [pc, arg]
    ncalls     \* number of calls started on the two codecs

two == <<inst, alone, hdrs, run, ncalls>>

vars == <<wire, broken, bw, br, rbuf, heap, last, prev, held, nops,
          passed, delivered,
          inst, alone, hdrs, run, ncalls>>

\* The nil slice.
nilSlice == [arr |-> 0, len |-> 0]
\* The bytes a slice shows: arr[:len].
Deref(h, sl) == IF sl.arr = 0 THEN <<>> ELSE Take(h[sl.arr], sl.len)

\* Framer.WriteBuffered: f.bw.Buffered()
WriteBuffered == BLen(bw.buf)
\* Framer.ReadBuffered: f.br.Buffered()
ReadBuffered == BLen(br)

\* Record of a call; the measurements are taken at entry (0) and at return (1).
Call(op) ==
    [op |-> op, typ |-> 0, pay |-> <<>>, err |-> nil,
     rtyp |-> 0, rpay |-> nilSlice,
     wb0 |-> WriteBuffered, wb1 |-> WriteBuffered, sent |-> 0,
     rb0 |-> ReadBuffered, rb1 |-> ReadBuffered, pulled |-> 0,
     unread0 |-> Cat(br, wire), wire0 |-> wire, staged0 |-> bw.buf,
     rdata |-> <<>>, cap0 |-> rbuf.cap, arr0 |-> rbuf.arr]

\* ------------------------------------------------------------ bufio.Writer
\* A writer state is [buf, err, wire, sent]: the buffered bytes, the sticky
\* error, the transport's content and the bytes handed to the transport.
Available(s) == bufSize - BLen(s.buf)

\* Flush that empties the buffer and writes nothing out.
bwFlush_drop(s) ==
    IF s.err # nil THEN s
    ELSE IF s.buf = <<>> THEN s
    ELSE IF broken THEN [s EXCEPT !.err = ErrClosedPipe]
    ELSE [s EXCEPT !.buf = <<>>]

\* Flush that hands the buffer over twice.
bwFlush_twice(s) ==
    IF s.err # nil THEN s
    ELSE IF s.buf = <<>> THEN s
    ELSE IF broken THEN [s EXCEPT !.err = ErrClosedPipe]
    ELSE [s EXCEPT !.wire = Cat(@, Cat(s.buf, s.buf)),
                   !.sent = @ + BLen(s.buf), !.buf = <<>>]

\* bufio.Writer.Flush
bwFlush(s) ==
    IF s.err # nil THEN s
    ELSE IF s.buf = <<>> THEN s
    ELSE IF broken THEN [s EXCEPT !.err = ErrClosedPipe]
    ELSE [s EXCEPT !.wire = Cat(@, s.buf), !.sent = @ + BLen(s.buf),
                   !.buf = <<>>]

\* Write that also flushes when the bytes exactly fill the buffer.
RECURSIVE bwWrite_eager(_, _)
bwWrite_eager(s, p) ==
    IF BLen(p) >= Available(s) /\ BLen(p) > 0 /\ s.err = nil
    THEN IF s.buf = <<>>
         THEN IF broken THEN [s EXCEPT !.err = ErrClosedPipe]
              ELSE bwWrite_eager([s EXCEPT !.wire = Cat(@, p),
                                           !.sent = @ + BLen(p)], <<>>)
         ELSE LET n == Available(s)
              IN  bwWrite_eager(bwFlush([s EXCEPT !.buf = Cat(@, Take(p, n))]),
                                Drop(p, n))
    ELSE IF s.err # nil THEN s
    ELSE [s EXCEPT !.buf = Cat(@, p)]

\* Write that sends bytes too many for the buffer straight to the transport,
\* ahead of what is staged.
bwWrite_overtake(s, p) ==
    IF BLen(p) > Available(s) /\ s.err = nil
    THEN IF broken THEN [s EXCEPT !.err = ErrClosedPipe]
         ELSE [s EXCEPT !.wire = Cat(@, p), !.sent = @ + BLen(p)]
    ELSE IF s.err # nil THEN s
    ELSE [s EXCEPT !.buf = Cat(@, p)]

\* bufio.Writer.Write
RECURSIVE bwWrite(_, _)
bwWrite(s, p) ==
    IF BLen(p) > Available(s) /\ s.err = nil
    THEN IF s.buf = <<>>
         THEN \* large write, empty buffer: straight to the transport
              IF broken THEN [s EXCEPT !.err = ErrClosedPipe]
              ELSE bwWrite([s EXCEPT !.wire = Cat(@, p),
                                     !.sent = @ + BLen(p)], <<>>)
         ELSE LET n == Available(s)
              IN  bwWrite(bwFlush([s EXCEPT !.buf = Cat(@, Take(p, n))]),
                          Drop(p, n))
    ELSE IF s.err # nil THEN s
    ELSE [s EXCEPT !.buf = Cat(@, p)]

\* WriteFrameBuffered that refuses a payload over the ceiling.
stageFrame_checked(s, msgType, payload) ==
    IF BLen(payload) > maxAllowed THEN [s EXCEPT !.err = ErrTooLarge]
    ELSE LET s1 == bwWrite(s, header(Magic, ProtocolVersion, msgType,
                                     BLen(payload)))
         IN  IF s1.err # nil THEN s1 ELSE bwWrite(s1, payload)

\* WriteFrameBuffered that writes the payload before the header.
stageFrame_payloadFirst(s, msgType, payload) ==
    LET s1 == bwWrite(s, payload)
    IN  IF s1.err # nil THEN s1
        ELSE bwWrite(s1, header(Magic, ProtocolVersion, msgType, BLen(payload)))

\* Framer.WriteFrameBuffered on a writer state.
stageFrame(s, msgType, payload) ==
    LET s1 == bwWrite(s, header(Magic, ProtocolVersion, msgType, BLen(payload)))
    IN  IF s1.err # nil THEN s1 ELSE bwWrite(s1, payload)

\* WriteFrame that stages and does not flush.
sendFrame_noFlush(s, msgType, payload) == stageFrame(s, msgType, payload)

\* Framer.WriteFrame on a writer state.
sendFrame(s, msgType, payload) ==
    LET s1 == stageFrame(s, msgType, payload)
    IN  IF s1.err # nil THEN s1 ELSE bwFlush(s1)

\* WriteFrame of the Framer that buffers writes only: header, payload, Flush.
bufferedWriteFrame(s, msgType, payload) ==
    LET s1 == bwWrite(s, header(Magic, ProtocolVersion, msgType, BLen(payload)))
        s2 == IF s1.err # nil THEN s1 ELSE bwWrite(s1, payload)
    IN  IF s2.err # nil THEN s2 ELSE bwFlush(s2)

\* WriteFrame of the Framer without buffers, on the transport's content w:
\* the header, then the payload, each in one Write to the transport.
unbufferedWriteFrame(w, msgType, payload) ==
    IF broken THEN [wire |-> w, err |-> ErrClosedPipe]
    ELSE [wire |-> Cat(Cat(w, header(Magic, ProtocolVersion, msgType,
                                     BLen(payload))), payload),
          err |-> nil]

wstate == [buf |-> bw.buf, err |-> bw.err, wire |-> wire, sent |-> 0]

\* The state after a call on the write path that ended in writer state s.
Written(c, s) ==
    /\ bw' = [buf |-> s.buf, err |-> s.err]
    /\ wire' = s.wire
    /\ last' = [c EXCEPT !.err = s.err, !.wb1 = BLen(s.buf), !.sent = s.sent]
    /\ prev' = last
    /\ nops' = nops + 1
    /\ heap' = [i \in {rbuf.arr, held.sl.arr, last.rpay.arr} \ {0} |-> heap[i]]
    /\ passed' = IF c.op = "Flush" THEN passed
                  ELSE Append(passed, [typ |-> c.typ, pay |-> c.pay])
    /\ delivered' = Cat(delivered, Drop(s.wire, BLen(wire)))
    /\ UNCHANGED <<broken, br, rbuf, held, two>>

WriteFrameBuffered(msgType, payload) ==
    /\ nops < MaxOps
    /\ Written([Call("WriteFrameBuffered") EXCEPT !.typ = msgType, !.pay = payload],
               stageFrame(wstate, msgType, payload))

WriteFrame(msgType, payload) ==
    /\ nops < MaxOps
    /\ Written([Call("WriteFrame") EXCEPT !.typ = msgType, !.pay = payload],
               sendFrame(wstate, msgType, payload))

Flush ==
    /\ nops < MaxOps
    /\ Written(Call("Flush"), bwFlush(wstate))

\* ------------------------------------------------------------ bufio.Reader
\* A reader state is [br, wire, pulled]: the buffered bytes, the transport's
\* content and the bytes taken from the transport.
Min(a, b) == IF a < b THEN a ELSE b

\* Read that takes from the transport only the bytes it was asked for.
brRead_exact(r, k) ==
    IF r.br = <<>>
    THEN LET n == Min(k, BLen(r.wire))
         IN  IF n = 0 THEN [st |-> r, data |-> <<>>, err |-> ErrEOF]
             ELSE [st |-> [r EXCEPT !.wire = Drop(@, n), !.pulled = @ + n],
                   data |-> Take(r.wire, n), err |-> nil]
    ELSE LET m == Min(k, BLen(r.br))
         IN  [st |-> [r EXCEPT !.br = Drop(@, m)], data |-> Take(r.br, m),
              err |-> nil]

\* bufio.Reader.Read(p) with len(p) = k > 0 over a bytes.Buffer, which gives
\* what it has, up to the size asked, and io.EOF when it is empty.
brRead(r, k) ==
    IF r.br = <<>>
    THEN IF k >= bufSize
         THEN \* large read, empty buffer: straight into p
              LET n == Min(k, BLen(r.wire))
              IN  IF n = 0 THEN [st |-> r, data |-> <<>>, err |-> ErrEOF]
                  ELSE [st |-> [r EXCEPT !.wire = Drop(@, n), !.pulled = @ + n],
                        data |-> Take(r.wire, n), err |-> nil]
         ELSE \* one read into the buffer, then copy
              LET n == Min(bufSize, BLen(r.wire))
                  m == Min(k, n)
              IN  IF n = 0 THEN [st |-> r, data |-> <<>>, err |-> ErrEOF]
                  ELSE [st |-> [br |-> Drop(Take(r.wire, n), m),
                                wire |-> Drop(r.wire, n),
                                pulled |-> r.pulled + n],
                        data |-> Take(r.wire, m), err |-> nil]
    ELSE LET m == Min(k, BLen(r.br))
         IN  [st |-> [r EXCEPT !.br = Drop(@, m)], data |-> Take(r.br, m),
              err |-> nil]

\* io.ReadFull(f.br, buf) with len(buf) = k: acc is what has been read so far.
RECURSIVE ReadFull(_, _, _)
ReadFull(r, k, acc) ==
    IF BLen(acc) >= k THEN [st |-> r, data |-> acc, err |-> nil]
    ELSE LET x == brRead(r, k - BLen(acc))
         IN  IF x.err # nil
             THEN [st |-> x.st, data |-> acc,
                   err |-> IF BLen(acc) > 0 THEN ErrUnexpectedEOF ELSE x.err]
             ELSE ReadFull(x.st, k, Cat(acc, x.data))

rstate == [br |-> br, wire |-> wire, pulled |-> 0]

\* make that hands out an array still in use.
NewArr_reuse(live) == IF live = {} THEN 1 ELSE CHOOSE i \in live : TRUE

\* make([]byte, n): a fresh array, not one of the live ones.
NewArr(live) == CHOOSE i \in 1..(Cardinality(live) + 1) :
                    i \notin live /\ \A j \in 1..(i - 1) : j \in live

\* grow that fits the buffer to every frame.
grow_exact(cap, length) == length

\* grow that allocates just the length asked for.
grow_noDouble(cap, length) == IF cap < length THEN length ELSE cap

\* cap(f.rbuf) after ReadFrameSharedBuffer made room for length bytes.
grow(cap, length) ==
    IF cap < length
    THEN IF cap * 2 < length THEN length ELSE cap * 2
    ELSE cap

\* headerErr with the length check before the version check.
headerErr_lengthFirst(h) ==
    IF Uint16(h, 0) # Magic THEN ErrBadMagic
    ELSE IF Uint32(h, 4) > maxAllowed THEN ErrTooLarge
    ELSE IF At(h, 2) # ProtocolVersion THEN ErrBadVersion
    ELSE nil

\* The header checks of ReadFrame, in the code's order: the error, or nil.
headerErr(h) ==
    IF Uint16(h, 0) # Magic THEN ErrBadMagic
    ELSE IF At(h, 2) # ProtocolVersion THEN ErrBadVersion
    ELSE IF Uint32(h, 4) > maxAllowed THEN ErrTooLarge
    ELSE nil

\* headerErrShared that refuses the ceiling itself.
headerErrShared_exclusive(h) ==
    IF Uint16(h, 0) # Magic THEN ErrBadMagic
    ELSE IF At(h, 2) # ProtocolVersion THEN ErrBadVersion
    ELSE IF Uint32(h, 4) >= maxAllowed THEN ErrTooLarge
    ELSE nil

\* Header checks that leave the version out.
headerErrShared_noVersion(h) ==
    IF Uint16(h, 0) # Magic THEN ErrBadMagic
    ELSE IF Uint32(h, 4) > maxAllowed THEN ErrTooLarge
    ELSE nil

\* The header checks of ReadFrameSharedBuffer.
headerErrShared(h) ==
    IF Uint16(h, 0) # Magic THEN ErrBadMagic
    ELSE IF At(h, 2) # ProtocolVersion THEN ErrBadVersion
    ELSE IF Uint32(h, 4) > maxAllowed THEN ErrTooLarge
    ELSE nil

\* A read that ended at the header: no type, no payload.
noFrame(st, err) ==
    [st |-> st, err |-> err, typ |-> 0, data |-> <<>>, length |-> 0,
     alloc |-> FALSE]

\* A payload read that passes for a frame however many bytes arrived.
withPayload_ignoreErr(h, b) ==
    [st |-> b.st, err |-> nil, typ |-> At(h, 3),
     data |-> b.data, length |-> Uint32(h, 4), alloc |-> TRUE]

\* The payload read of a frame whose header h passed the checks: b is the
\* result of io.ReadFull for the payload.
withPayload(h, b) ==
    [st |-> b.st, err |-> b.err,
     typ |-> IF b.err = nil THEN At(h, 3) ELSE 0,
     data |-> b.data, length |-> Uint32(h, 4), alloc |-> TRUE]

\* ReadFrame that reads the body before it checks the header.
readFrameFrom_bodyFirst(h) ==
    IF h.err # nil THEN noFrame(h.st, h.err)
    ELSE LET b == ReadFull(h.st, Uint32(h.data, 4), <<>>)
         IN  IF headerErr(h.data) # nil THEN noFrame(b.st, headerErr(h.data))
             ELSE withPayload(h.data, b)

\* ReadFrame that reads past the body of a frame it refuses as too large.
readFrameFrom_skipBody(h) ==
    IF h.err # nil THEN noFrame(h.st, h.err)
    ELSE IF headerErr(h.data) = ErrTooLarge
         THEN noFrame(ReadFull(h.st, Uint32(h.data, 4), <<>>).st, ErrTooLarge)
    ELSE IF headerErr(h.data) # nil THEN noFrame(h.st, headerErr(h.data))
    ELSE withPayload(h.data, ReadFull(h.st, Uint32(h.data, 4), <<>>))

\* Framer.ReadFrame on a reader state: [st, err, typ, data, length, alloc],
\* where data are the payload bytes read, length is the declared length and
\* alloc tells whether the payload buffer was made.
readFrameFrom(h) ==
    IF h.err # nil THEN noFrame(h.st, h.err)
    ELSE IF headerErr(h.data) # nil THEN noFrame(h.st, headerErr(h.data))
    ELSE withPayload(h.data, ReadFull(h.st, Uint32(h.data, 4), <<>>))

readFrame(r) == readFrameFrom(ReadFull(r, headerLen, <<>>))

\* Framer.ReadFrameSharedBuffer on a reader state, same shape of result.
readFrameSharedBufferFrom(h) ==
    IF h.err # nil THEN noFrame(h.st, h.err)
    ELSE IF headerErrShared(h.data) # nil
         THEN noFrame(h.st, headerErrShared(h.data))
    ELSE withPayload(h.data, ReadFull(h.st, Uint32(h.data, 4), <<>>))

readFrameSharedBuffer(r) == readFrameSharedBufferFrom(ReadFull(r, headerLen, <<>>))

\* The slice ReadFrame returns for result x when its array is a.
freshSlice(x, a) == [arr |-> a, len |-> x.length]

\* The slice ReadFrameSharedBuffer returns for result x: f.rbuf[:length].
sharedSlice(x, buf) == IF buf.arr = 0 THEN nilSlice
                       ELSE [arr |-> buf.arr, len |-> x.length]

\* Arrays some slice of the program still refers to.
Live == {rbuf.arr, held.sl.arr, last.rpay.arr} \ {0}

ReadFrame(keep) ==
    /\ nops < MaxOps
    /\ \E x \in {readFrame(rstate)} :       \* evaluated once
       LET a == NewArr(Live)
           sl == IF x.err = nil THEN freshSlice(x, a) ELSE nilSlice
           hp == IF x.alloc
                 THEN [i \in Live \cup {a} |->
                          IF i = a THEN Cat(x.data, Rep(0, x.length - BLen(x.data)))
                          ELSE heap[i]]
                 ELSE heap
       IN  /\ br' = x.st.br
           /\ wire' = x.st.wire
           /\ last' = [Call("ReadFrame") EXCEPT
                          !.err = x.err, !.rtyp = x.typ, !.rpay = sl,
                          !.rdata = IF x.err = nil THEN x.data ELSE <<>>,
                          !.rb1 = BLen(x.st.br), !.pulled = x.st.pulled]
           /\ held' = IF keep /\ x.err = nil
                      THEN [sl |-> sl, want |-> x.data] ELSE held
           /\ heap' = [i \in {rbuf.arr, held'.sl.arr, last.rpay.arr, sl.arr} \ {0}
                          |-> hp[i]]
    /\ prev' = last
    /\ nops' = nops + 1
    /\ UNCHANGED <<broken, bw, rbuf, passed, delivered, two>>

ReadFrameSharedBuffer ==
    /\ nops < MaxOps
    /\ \E x \in {readFrameSharedBuffer(rstate)} :       \* evaluated once
       LET newCap == IF x.alloc THEN grow(rbuf.cap, x.length) ELSE rbuf.cap
           buf == IF newCap # rbuf.cap
                  THEN [arr |-> NewArr(Live), cap |-> newCap] ELSE rbuf
           old == IF buf.arr = rbuf.arr
                  THEN (IF buf.arr = 0 THEN <<>> ELSE heap[buf.arr])
                  ELSE Rep(0, newCap)
           hp == IF buf.arr = 0 THEN heap
                 ELSE [i \in Live \cup {buf.arr} |->
                          IF i = buf.arr
                          THEN Cat(x.data, Drop(old, BLen(x.data)))
                          ELSE heap[i]]
           sl == IF x.err = nil THEN sharedSlice(x, buf) ELSE nilSlice
       IN  /\ br' = x.st.br
           /\ wire' = x.st.wire
           /\ rbuf' = buf
           /\ last' = [Call("ReadFrameSharedBuffer") EXCEPT
                          !.err = x.err, !.rtyp = x.typ, !.rpay = sl,
                          !.rdata = IF x.err = nil THEN x.data ELSE <<>>,
                          !.rb1 = BLen(x.st.br), !.pulled = x.st.pulled]
           /\ heap' = [i \in {buf.arr, held.sl.arr, last.rpay.arr, sl.arr} \ {0}
                          |-> hp[i]]
    /\ prev' = last
    /\ nops' = nops + 1
    /\ UNCHANGED <<broken, bw, held, passed, delivered, two>>

\* ------------------------------------------------------------ environment
\* The transport stops taking writes (a closed connection).
Close ==
    /\ nops < MaxOps
    /\ ~broken
    /\ broken' = TRUE
    /\ last' = Call("Close")
    /\ prev' = last
    /\ nops' = nops + 1
    /\ heap' = [i \in Live |-> heap[i]]
    /\ UNCHANGED <<wire, bw, br, rbuf, held, passed, delivered, two>>

\* NewFramer over a transport that holds one of Streams.
\* The two codecs.
Inst == {1, 2}
\* No result yet.
noResult == [err |-> nil, typ |-> 0, data |-> <<>>]
\* NewFramer over an empty transport.
fresh == [wire |-> <<>>, bw |-> [buf |-> <<>>, err |-> nil], br |-> <<>>,
          res |-> noResult]
\* No call running.
idle == [pc |-> "idle", arg |-> [typ |-> 0, pay |-> <<>>]]
\* var header [8]byte
zeroHeader == Rep(0, headerLen)

TwoInit ==
    /\ inst = [i \in Inst |-> fresh]
    /\ alone = [i \in Inst |-> fresh]
    /\ hdrs = [k \in {0} \cup Inst |-> zeroHeader]
    /\ run = [i \in Inst |-> idle]
    /\ ncalls = 0

Init ==
    /\ TwoInit
    /\ wire \in Streams
    /\ broken = FALSE
    /\ bw = [buf |-> <<>>, err |-> nil]
    /\ br = <<>>
    /\ rbuf = [arr |-> 0, cap |-> 0]
    /\ heap = <<>>
    /\ last = [op |-> "NewFramer", typ |-> 0, pay |-> <<>>, err |-> nil,
               rtyp |-> 0, rpay |-> nilSlice, wb0 |-> 0, wb1 |-> 0, sent |-> 0,
               rb0 |-> 0, rb1 |-> 0, pulled |-> 0, unread0 |-> wire,
               wire0 |-> wire, staged0 |-> <<>>, rdata |-> <<>>, cap0 |-> 0,
               arr0 |-> 0]
    /\ prev = last
    /\ held = [sl |-> nilSlice, want |-> <<>>]
    /\ nops = 0
    /\ passed = <<>>
    /\ delivered = <<>>

Next ==
    \/ \E f \in Frames : WriteFrame(f.typ, f.pay)
    \/ \E f \in Frames : WriteFrameBuffered(f.typ, f.pay)
    \/ Flush
    \/ \E keep \in BOOLEAN : ReadFrame(keep)
    \/ ReadFrameSharedBuffer
    \/ Close

Spec == Init /\ [][Next]_vars

\* ------------------------------------------------------------ two codecs
MaxCalls == 3                       \* calls started on the two codecs
\* Frames the two goroutines write.
SmallFrames == {f \in Frames : BLen(f.pay) <= 2}

\* A header array shared by all calls: the package-level one.
hdrOf_package(i) == 0

\* The header array a call on codec i fills and reads: its local variable.
hdrOf(i) == i

\* Writer and reader states of a codec record.
wstateOf(x) == [buf |-> x.bw.buf, err |-> x.bw.err, wire |-> x.wire, sent |-> 0]
rstateOf(x) == [br |-> x.br, wire |-> x.wire, pulled |-> 0]
afterWrite(x, s) ==
    [x EXCEPT !.wire = s.wire, !.bw = [buf |-> s.buf, err |-> s.err],
              !.res = [noResult EXCEPT !.err = s.err]]
afterRead(x, r) ==
    [x EXCEPT !.br = r.st.br, !.wire = r.st.wire,
              !.res = [err |-> r.err, typ |-> r.typ,
                       data |-> IF r.err = nil THEN r.data ELSE <<>>]]

\* A whole call on a codec with nothing else running.
aloneWrite(x, op, f) ==
    afterWrite(x, IF op = "WriteFrame" THEN sendFrame(wstateOf(x), f.typ, f.pay)
                  ELSE stageFrame(wstateOf(x), f.typ, f.pay))
aloneRead(x) == afterRead(x, readFrame(rstateOf(x)))

\* WriteFrame / WriteFrameBuffered on codec i, first part: the header array
\* is filled.
BeginWrite(i, op, f) ==
    /\ ncalls < MaxCalls
    /\ run[i].pc = "idle"
    /\ hdrs' = [hdrs EXCEPT ![hdrOf(i)] =
                   header(Magic, ProtocolVersion, f.typ, BLen(f.pay))]
    /\ run' = [run EXCEPT ![i] = [pc |-> op, arg |-> f]]
    /\ ncalls' = ncalls + 1
    /\ UNCHANGED <<inst, alone>>

\* Second part: the header array and the payload are written, WriteFrame
\* flushes, the call returns and its header array is gone.
EndWrite(i) ==
    /\ run[i].pc \in {"WriteFrame", "WriteFrameBuffered"}
    /\ LET s1 == bwWrite(wstateOf(inst[i]), hdrs[hdrOf(i)])
           s2 == IF s1.err # nil THEN s1 ELSE bwWrite(s1, run[i].arg.pay)
           s3 == IF run[i].pc = "WriteFrame" /\ s2.err = nil
                 THEN bwFlush(s2) ELSE s2
       IN  inst' = [inst EXCEPT ![i] = afterWrite(@, s3)]
    /\ alone' = [alone EXCEPT ![i] = aloneWrite(@, run[i].pc, run[i].arg)]
    /\ hdrs' = [hdrs EXCEPT ![hdrOf(i)] = zeroHeader]
    /\ run' = [run EXCEPT ![i] = idle]
    /\ UNCHANGED ncalls

\* ReadFrame on codec i, first part: io.ReadFull into the header array; the
\* call returns here when the stream ends early.
BeginRead(i) ==
    /\ ncalls < MaxCalls
    /\ run[i].pc = "idle"
    /\ \E h \in {ReadFull(rstateOf(inst[i]), headerLen, <<>>)} :
          IF h.err # nil
          THEN /\ inst' = [inst EXCEPT ![i] = afterRead(@, noFrame(h.st, h.err))]
               /\ alone' = [alone EXCEPT ![i] = aloneRead(@)]
               /\ UNCHANGED <<hdrs, run>>
          ELSE /\ inst' = [inst EXCEPT ![i].br = h.st.br, ![i].wire = h.st.wire]
               /\ hdrs' = [hdrs EXCEPT ![hdrOf(i)] = h.data]
               /\ run' = [run EXCEPT ![i].pc = "ReadFrame"]
               /\ UNCHANGED alone
    /\ ncalls' = ncalls + 1

\* Second part: the header array is checked, the payload read, the call
\* returns and its header array is gone.
EndRead(i) ==
    /\ run[i].pc = "ReadFrame"
    /\ inst' = [inst EXCEPT ![i] =
                  afterRead(@, readFrameFrom([st |-> rstateOf(@),
                                              data |-> hdrs[hdrOf(i)],
                                              err |-> nil]))]
    /\ alone' = [alone EXCEPT ![i] = aloneRead(@)]
    /\ hdrs' = [hdrs EXCEPT ![hdrOf(i)] = zeroHeader]
    /\ run' = [run EXCEPT ![i] = idle]
    /\ UNCHANGED ncalls

one == <<wire, broken, bw, br, rbuf, heap, last, prev, held, nops,
        passed, delivered>>

InitTwo ==
    /\ TwoInit
    /\ wire = <<>>
    /\ broken = FALSE
    /\ bw = fresh.bw
    /\ br = <<>>
    /\ rbuf = [arr |-> 0, cap |-> 0]
    /\ heap = <<>>
    /\ last = Call("NewFramer")
    /\ prev = last
    /\ held = [sl |-> nilSlice, want |-> <<>>]
    /\ nops = 0
    /\ passed = <<>>
    /\ delivered = <<>>

NextTwo ==
    \/ \E i \in Inst, f \in SmallFrames : BeginWrite(i, "WriteFrame", f) /\ UNCHANGED one
    \/ \E i \in Inst, f \in SmallFrames :
          BeginWrite(i, "WriteFrameBuffered", f) /\ UNCHANGED one
    \/ \E i \in Inst : EndWrite(i) /\ UNCHANGED one
    \/ \E i \in Inst : BeginRead(i) /\ UNCHANGED one
    \/ \E i \in Inst : EndRead(i) /\ UNCHANGED one

SpecTwo == InitTwo /\ [][NextTwo]_vars

\* ------------------------------------------------------------ claims
reads == {"ReadFrame", "ReadFrameSharedBuffer"}
rejections == {ErrBadMagic, ErrBadVersion, ErrTooLarge}
\* The bytes the last read returned, as its slice shows them now.
Returned == Deref(heap, last.rpay)
\* The call found a whole header at the read position.
SawHeader(c) == BLen(c.unread0) >= headerLen
\* The 16-bit value its two first bytes state, first byte high.
MagicAt(c) == At(c.unread0, 0) * 256 + At(c.unread0, 1)
\* The wire bytes of the frame a write call was given.
Encoded(c) == wireFrame(Magic, ProtocolVersion, c.typ, BLen(c.pay), c.pay)
\* The write call started with nothing staged and nothing unread.
CleanStart(c) == c.wb0 = 0 /\ c.unread0 = <<>>

\* C1: a WriteFrame(type, payload) with len(payload) <= maxAllowed on a codec
\* with nothing staged or unread, followed by ReadFrame, gives back exactly
\* (type, payload) and no error.
C1_RoundTrip ==
    (/\ prev.op = "WriteFrame" /\ prev.err = nil /\ CleanStart(prev)
     /\ BLen(prev.pay) <= maxAllowed
     /\ last.op = "ReadFrame")
    => (last.err = nil /\ last.rtyp = prev.typ /\ Returned = prev.pay)

C1_Witness ==
    /\ prev.op = "WriteFrame" /\ prev.err = nil /\ CleanStart(prev)
    /\ BLen(prev.pay) = maxAllowed /\ prev.typ = 255
    /\ last.op = "ReadFrame" /\ last.err = nil /\ Returned = prev.pay

\* C2 as stated: whatever the payload's length, WriteFrameBuffered hands no
\* byte to the transport.
C2_AnyLength ==
    last.op = "WriteFrameBuffered" => (last.sent = 0 /\ wire = last.wire0)

\* C2 amended: a WriteFrameBuffered whose frame fits the write buffer next to
\* what is already staged (staged + 8 + len(payload) <= 64 KiB) hands no byte
\* to the transport and leaves the frame staged behind the earlier bytes; no
\* call other than WriteFrameBuffered, Flush and WriteFrame hands bytes to it.
C2_Isolation ==
    /\ (last.op = "WriteFrameBuffered"
        /\ last.wb0 + headerLen + BLen(last.pay) <= bufSize)
       => /\ last.sent = 0
          /\ wire = last.wire0
          /\ last.err = nil => bw.buf = Cat(last.staged0, Encoded(last))
    /\ last.op \notin {"WriteFrameBuffered", "Flush", "WriteFrame"}
       => last.sent = 0

C2_Witness ==
    /\ last.op = "WriteFrameBuffered" /\ last.err = nil
    /\ last.wb0 > 0
    /\ last.wb0 + headerLen + BLen(last.pay) <= bufSize
    /\ last.sent = 0

\* C3 as stated: after WriteFrameBuffered on a codec with nothing staged,
\* WriteBuffered() is 8 + len(payload), whatever the payload; the Flush that
\* follows delivers that many bytes and leaves WriteBuffered() at 0.
C3_AnyLength ==
    /\ (last.op = "WriteFrameBuffered" /\ last.wb0 = 0 /\ last.err = nil)
       => last.wb1 = headerLen + BLen(last.pay)
    /\ (prev.op = "WriteFrameBuffered" /\ prev.wb0 = 0 /\ prev.err = nil
        /\ last.op = "Flush" /\ last.err = nil)
       => (last.sent = headerLen + BLen(prev.pay) /\ last.wb1 = 0)

\* C3 amended: the same, for payloads with 8 + len(payload) <= 64 KiB (the
\* size of the write buffer).
C3_Accounting ==
    /\ (last.op = "WriteFrameBuffered" /\ last.wb0 = 0 /\ last.err = nil
        /\ headerLen + BLen(last.pay) <= bufSize)
       => last.wb1 = headerLen + BLen(last.pay)
    /\ (prev.op = "WriteFrameBuffered" /\ prev.wb0 = 0 /\ prev.err = nil
        /\ headerLen + BLen(prev.pay) <= bufSize
        /\ last.op = "Flush" /\ last.err = nil)
       => /\ last.wb0 = prev.wb1
          /\ last.sent = headerLen + BLen(prev.pay)
          /\ wire = Cat(last.wire0, Encoded(prev))
          /\ last.wb1 = 0 /\ bw.buf = <<>>

C3_Witness ==
    /\ prev.op = "WriteFrameBuffered" /\ prev.wb0 = 0 /\ prev.err = nil
    /\ BLen(prev.pay) = bufSize - headerLen
    /\ last.op = "Flush" /\ last.err = nil /\ last.sent = bufSize

\* Two successful ReadFrameSharedBuffer calls in a row, frames of different
\* payloads.
TwoSharedReads ==
    /\ prev.op = "ReadFrameSharedBuffer" /\ prev.err = nil
    /\ last.op = "ReadFrameSharedBuffer" /\ last.err = nil
    /\ prev.rdata # last.rdata
\* What the first call's slice shows now.
FirstView == Deref(heap, prev.rpay)
Common == Min(prev.rpay.len, last.rpay.len)

\* C4 as stated: whatever the two lengths, the first call's slice shows the
\* second frame's bytes (as far as the two overlap).
C4_AnyLengths ==
    TwoSharedReads => Take(FirstView, Common) = Take(last.rdata, Common)

\* C4 amended: when the second frame's length is at most the capacity the
\* reusable buffer had after the first call, the first call's slice shows the
\* second frame's bytes over the first min(L1, L2) positions and the first
\* frame's bytes behind them; when it is larger, the buffer is replaced and
\* the first call's slice still shows the first frame's bytes.
C4_SharedReuse ==
    TwoSharedReads =>
        IF last.rpay.len <= last.cap0
        THEN FirstView = Take(Cat(last.rdata, Drop(prev.rdata, last.rpay.len)),
                              prev.rpay.len)
        ELSE FirstView = prev.rdata

C4_Witness ==
    /\ TwoSharedReads
    /\ 0 < last.rpay.len /\ last.rpay.len < prev.rpay.len
    /\ last.rpay.len <= last.cap0
    /\ FirstView # prev.rdata

\* C5: the payload a successful ReadFrame returned shows the frame's payload
\* after every later call on the codec.
C5_FreshPayload ==
    held.sl # nilSlice => Deref(heap, held.sl) = held.want

C5_Witness ==
    /\ held.sl # nilSlice /\ held.sl.len > 0
    /\ held.sl # last.rpay
    /\ last.op \in reads /\ last.err = nil /\ last.rpay.len > 0

\* C6: when the two first bytes of the header at the read position are not
\* Magic (big-endian), ReadFrame fails with ErrBadMagic and gives type 0 and
\* a nil payload, whatever version and length the header states.
C6_BadMagic ==
    (last.op = "ReadFrame" /\ SawHeader(last)
     /\ MagicAt(last) # Magic)
    => (last.err = ErrBadMagic /\ last.rpay = nilSlice /\ last.rtyp = 0)

C6_Witness ==
    /\ last.op = "ReadFrame" /\ SawHeader(last)
    /\ MagicAt(last) = Magic - 1
    /\ At(last.unread0, 2) # ProtocolVersion
    /\ Uint32(last.unread0, 4) > maxAllowed
    /\ last.err = ErrBadMagic

\* C7: when the header's magic is Magic and its version byte is not
\* ProtocolVersion, the read fails with ErrBadVersion, also when the length
\* it states is over the ceiling.
C7_BadVersion ==
    (last.op \in reads /\ SawHeader(last)
     /\ MagicAt(last) = Magic
     /\ At(last.unread0, 2) # ProtocolVersion)
    => (last.err = ErrBadVersion /\ last.rpay = nilSlice /\ last.rtyp = 0)

C7_Witness ==
    /\ last.op = "ReadFrame" /\ SawHeader(last)
    /\ MagicAt(last) = Magic
    /\ At(last.unread0, 2) # ProtocolVersion
    /\ Uint32(last.unread0, 4) > maxAllowed
    /\ last.err = ErrBadVersion

\* The header at the read position has the right magic and version.
GoodHeader(c) ==
    /\ SawHeader(c)
    /\ MagicAt(c) = Magic
    /\ At(c.unread0, 2) = ProtocolVersion
Declared(c) == Uint32(c.unread0, 4)

\* C8: with the right magic and version, both reads fail with frame too large
\* when the stated length is over maxAllowed, and succeed, giving the type
\* and the length bytes behind the header, when it is at most maxAllowed
\* (maxAllowed itself too) and that many bytes follow.
C8_Ceiling ==
    (last.op \in reads /\ GoodHeader(last))
    => /\ Declared(last) > maxAllowed => last.err = ErrTooLarge
       /\ (/\ Declared(last) <= maxAllowed
           /\ BLen(last.unread0) >= headerLen + Declared(last))
          => /\ last.err = nil
             /\ last.rtyp = At(last.unread0, 3)
             /\ Returned = Take(Drop(last.unread0, headerLen), Declared(last))

C8_Witness ==
    /\ last.op = "ReadFrameSharedBuffer" /\ GoodHeader(last)
    /\ Declared(last) = maxAllowed
    /\ last.err = nil /\ BLen(Returned) = maxAllowed

\* A read that was refused at a header with more bytes behind it.
Rejected ==
    /\ last.op = "ReadFrame" /\ last.err \in rejections
    /\ BLen(last.unread0) > headerLen

\* C9 as stated: a rejected ReadFrame has taken the 8 header bytes from the
\* transport and none of the bytes behind them.
C9_OnlyHeaderPulled ==
    Rejected => (last.pulled = headerLen
                 /\ wire = Drop(last.wire0, headerLen))

\* C9 amended: a rejected ReadFrame has decoded the 8 header bytes and no
\* more: the bytes behind the header are all still unread, in order, in the
\* codec's read buffer or on the transport, and ReadBuffered() counts the
\* ones that were taken from the transport.
C9_OnlyHeaderConsumed ==
    Rejected => /\ Cat(br, wire) = Drop(last.unread0, headerLen)
                /\ last.rb1 = last.rb0 + last.pulled - headerLen
                /\ last.rb1 = ReadBuffered

C9_Witness ==
    /\ Rejected /\ last.err = ErrTooLarge
    /\ last.pulled > headerLen
    /\ br # <<>>

\* C10: in every state, WriteFrame(type, payload) leaves the writer, the
\* transport and the error as WriteFrameBuffered(type, payload) followed by
\* Flush does; and a WriteFrame that returned no error has delivered what was
\* staged before it and then its frame, in that order, and left nothing
\* staged.
C10_StageThenFlush ==
    /\ \A f \in Frames :
          sendFrame(wstate, f.typ, f.pay)
              = bwFlush(stageFrame(wstate, f.typ, f.pay))
    /\ (last.op = "WriteFrame" /\ last.err = nil)
       => /\ wire = Cat(Cat(last.wire0, last.staged0), Encoded(last))
          /\ last.sent = last.wb0 + headerLen + BLen(last.pay)
          /\ last.wb1 = 0 /\ bw.buf = <<>>

C10_Witness ==
    /\ prev.op = "WriteFrameBuffered" /\ prev.err = nil /\ prev.wb1 > 0
    /\ last.op = "WriteFrame" /\ last.err = nil
    /\ last.wb0 > 0 /\ BLen(last.pay) > bufSize


\* The bytes behind the first frame of what the call found unread.
Behind(c) == Drop(c.unread0, headerLen + Declared(c))
\* What the call found unread is two complete, well-formed frames.
TwoFrames(c) ==
    /\ GoodHeader(c) /\ Declared(c) <= maxAllowed
    /\ BLen(Behind(c)) >= headerLen
    /\ At(Behind(c), 0) * 256 + At(Behind(c), 1) = Magic
    /\ At(Behind(c), 2) = ProtocolVersion
    /\ Uint32(Behind(c), 4) <= maxAllowed
    /\ BLen(Behind(c)) = headerLen + Uint32(Behind(c), 4)
\* Bytes the last read decoded: a header and a payload, a refused header, or
\* all there was when the stream ended early.
Decoded ==
    IF last.err = nil THEN headerLen + last.rpay.len
    ELSE IF last.err \in rejections THEN headerLen
    ELSE BLen(last.unread0)
\* ReadBuffered() is what was buffered, plus what the call took from the
\* transport, minus what it decoded.
Occupancy ==
    /\ nops = 0 => ReadBuffered = 0
    /\ last.rb1 = ReadBuffered
    /\ last.op \in reads
       => /\ ReadBuffered = last.rb0 + last.pulled - Decoded
          /\ last.pulled = BLen(last.wire0) - BLen(wire)
    /\ last.op \notin reads => (ReadBuffered = last.rb0 /\ last.pulled = 0)
\* The last frame of the stream was read: nothing is left buffered.
DrainedAtEnd ==
    (last.op \in reads /\ last.err = nil
     /\ BLen(last.unread0) = headerLen + last.rpay.len)
    => ReadBuffered = 0

\* C11 as stated: after a successful ReadFrame on a stream that held two
\* complete frames, ReadBuffered() is 8 + len(payload2), whatever the frames'
\* sizes.
C11_AnySizes ==
    (last.op = "ReadFrame" /\ last.err = nil /\ TwoFrames(last))
    => ReadBuffered = BLen(Behind(last))

\* C11 amended: ReadBuffered() is 0 on a new codec; in every state it is the
\* bytes taken from the transport minus the bytes decoded; it is 0 after the
\* stream's last frame is read; and after a successful ReadFrame that started
\* with an empty read buffer on a stream of two complete frames of at most
\* 64 KiB together, it is 8 + len(payload2).
C11_ReadBuffered ==
    /\ Occupancy
    /\ DrainedAtEnd
    /\ (last.op = "ReadFrame" /\ last.err = nil /\ TwoFrames(last)
        /\ last.rb0 = 0 /\ BLen(last.unread0) <= bufSize)
       => ReadBuffered = BLen(Behind(last))

C11_Witness ==
    /\ prev.op = "ReadFrame" /\ prev.err = nil /\ TwoFrames(prev)
    /\ prev.rb0 = 0 /\ prev.rb1 = headerLen + 5
    /\ last.op = "ReadFrame" /\ last.err = nil /\ last.rpay.len = 5
    /\ ReadBuffered = 0


\* The stream ends inside the frame at the read position: before its eighth
\* header byte, or behind a header that passes the checks but before the
\* payload bytes it declares.
EndsEarly(c) ==
    \/ ~SawHeader(c)
    \/ /\ GoodHeader(c) /\ Declared(c) <= maxAllowed
       /\ BLen(c.unread0) < headerLen + Declared(c)

\* C12: when the stream ends before the eighth header byte, or after a valid
\* header but before the declared payload bytes, ReadFrame and
\* ReadFrameSharedBuffer return a non-nil error, type 0 and a nil payload; a
\* read that returns no error returns all the declared payload bytes.
C12_ShortRead ==
    last.op \in reads
    => /\ EndsEarly(last)
          => /\ last.err \in {ErrEOF, ErrUnexpectedEOF}
             /\ last.rtyp = 0 /\ last.rpay = nilSlice
       /\ last.err = nil
          => /\ last.rpay.len = Declared(last)
             /\ Returned = Take(Drop(last.unread0, headerLen), Declared(last))

C12_Witness ==
    /\ last.op = "ReadFrameSharedBuffer" /\ GoodHeader(last)
    /\ Declared(last) = maxAllowed /\ BLen(last.unread0) < maxAllowed
    /\ last.err = ErrUnexpectedEOF /\ last.rtyp = 0 /\ last.rpay = nilSlice


\* The magic number the README gives for the header.
DocMagic == 43981                       \* 0xABCD
\* The bytes the last call added to the transport.
Emitted == Drop(wire, BLen(last.wire0))

\* C13: the first two bytes of the frame WriteFrame emits are 0xABCD, first
\* byte high, and a header ReadFrame accepts starts with 0xABCD.
C13_MagicABCD ==
    /\ (last.op = "WriteFrame" /\ last.err = nil /\ last.wb0 = 0)
       => At(Emitted, 0) * 256 + At(Emitted, 1) = DocMagic
    /\ (last.op = "ReadFrame" /\ last.err = nil) => MagicAt(last) = DocMagic


writes == {"WriteFrame", "WriteFrameBuffered"}
\* The bytes sent and not yet decoded, in stream order.
Unread == Cat(br, wire)
\* What the call found unread begins with a whole frame as the writers encode
\* one, of whatever payload length.
FrontFrame(c) ==
    GoodHeader(c) /\ BLen(c.unread0) >= headerLen + Declared(c)
\* The last read returned exactly the frame at the front and left the rest.
TookFront ==
    /\ last.err = nil
    /\ last.rtyp = At(last.unread0, 3)
    /\ Returned = Take(Drop(last.unread0, headerLen), Declared(last))
    /\ Unread = Behind(last)
\* A successful write call puts its frame behind everything written before,
\* staged or sent, and moves nothing that was there; WriteFrame and Flush
\* leave nothing staged; a read leaves the writer's bytes alone.
AppendsBehind ==
    /\ (last.op \in writes /\ last.err = nil)
       => /\ Cat(wire, bw.buf)
             = Cat(Cat(last.wire0, last.staged0), Encoded(last))
          /\ Take(Unread, BLen(last.unread0)) = last.unread0
    /\ (last.op \in {"WriteFrame", "Flush"} /\ last.err = nil)
       => (bw.buf = <<>> /\ wire = Cat(Cat(last.wire0, last.staged0),
                                      IF last.op = "Flush" THEN <<>>
                                      ELSE Encoded(last)))
    /\ last.op \in reads
       => /\ bw.buf = last.staged0
          /\ last.unread0
             = Cat(Take(last.unread0, BLen(last.unread0) - BLen(Unread)), Unread)

\* C14 as stated: whatever the frames written, a read that finds a whole
\* written frame at the front of the stream returns that frame and leaves
\* the frames behind it.
C14_AnyFrames ==
    (last.op \in reads /\ FrontFrame(last)) => TookFront

\* C14 amended: frames with payloads of at most maxAllowed bytes come out in
\* the order written.  Every successful WriteFrame or WriteFrameBuffered puts
\* its frame behind all bytes written before it, Flush and WriteFrame hand the
\* staged bytes over in that order, and a read that finds a whole frame of at
\* most maxAllowed payload bytes at the front returns that frame, with its
\* type and payload, and leaves exactly the frames behind it; every
\* successful read is such a read.
C14_FrameOrder ==
    /\ AppendsBehind
    /\ (last.op \in reads /\ FrontFrame(last) /\ Declared(last) <= maxAllowed)
       => TookFront
    /\ (last.op \in reads /\ last.err = nil)
       => (FrontFrame(last) /\ TookFront)

C14_Witness ==
    /\ prev.op = "WriteFrame" /\ prev.err = nil /\ prev.typ = 1
    /\ TwoFrames(prev)
    /\ last.op = "ReadFrame" /\ last.err = nil /\ last.rtyp = 4
    /\ Unread = Cat(Behind(prev), Encoded(prev))
    /\ At(Unread, 3) = 5


\* The frame layout, byte by byte: magic (high byte first), version, type,
\* payload length (highest byte first), payload.
Layout(typ, pay) ==
    Cat(Bytes(<<Magic \div 256, Magic % 256, ProtocolVersion, typ,
                (BLen(pay) \div 16777216) % 256, (BLen(pay) \div 65536) % 256,
                (BLen(pay) \div 256) % 256, BLen(pay) % 256>>),
        pay)

\* C15: the bytes a successful WriteFrame(type, payload) adds to the
\* transport for its frame are the 8 header bytes (magic high byte first,
\* version, type, payload length as four bytes, highest first) and then the
\* payload, behind whatever was staged before the call; the Framer without
\* buffers and the Framer with a write buffer only put the same bytes on the
\* transport.
C15_WireLayout ==
    (last.op = "WriteFrame" /\ last.err = nil)
    => /\ Emitted = Cat(last.staged0, Layout(last.typ, last.pay))
       /\ unbufferedWriteFrame(Cat(last.wire0, last.staged0),
                               last.typ, last.pay).wire = wire
       /\ bufferedWriteFrame([buf |-> last.staged0, err |-> nil,
                              wire |-> last.wire0, sent |-> 0],
                             last.typ, last.pay).wire = wire

C15_Witness ==
    /\ last.op = "WriteFrame" /\ last.err = nil /\ last.wb0 = 0
    /\ last.typ = 1 /\ BLen(last.pay) = 65529
    /\ Take(Emitted, headerLen) = Bytes(<<89, 89, 1, 1, 0, 0, 255, 249>>)
    /\ Drop(Emitted, headerLen) = last.pay


\* C16: a ReadFrame that refuses a header (too large, bad magic or bad
\* version) leaves the read position right behind the 8 header bytes; the
\* next ReadFrame starts there and takes the 8 bytes it finds as a header,
\* without skipping the refused frame's body or looking for the next magic.
C16_MidFrame ==
    /\ (last.op = "ReadFrame" /\ last.err \in rejections)
       => Unread = Drop(last.unread0, headerLen)
    /\ (prev.op = "ReadFrame" /\ prev.err \in rejections
        /\ last.op = "ReadFrame")
       => /\ last.unread0 = Drop(prev.unread0, headerLen)
          /\ ~SawHeader(last) => last.err \in {ErrEOF, ErrUnexpectedEOF}
          /\ SawHeader(last)
             => /\ last.err = ErrBadMagic <=> MagicAt(last) # Magic
                /\ last.err = nil
                   <=> /\ FrontFrame(last)
                       /\ Declared(last) <= maxAllowed
                /\ last.err = nil
                   => /\ last.rtyp = At(prev.unread0, headerLen + 3)
                      /\ Returned = Take(Drop(prev.unread0, 2 * headerLen),
                                         Uint32(prev.unread0, headerLen + 4))

C16_Witness ==
    /\ prev.op = "ReadFrame" /\ prev.err = ErrTooLarge
    /\ BLen(prev.unread0) = 2 * headerLen + 2
    /\ last.op = "ReadFrame" /\ last.err = nil /\ last.rtyp = 7
    /\ Returned = Bytes(<<1, 2>>)


\* The bytes the last write call put behind what was sent and staged before.
Framed == Drop(Cat(wire, bw.buf), BLen(last.wire0) + BLen(last.staged0))

\* C17: on a transport that takes writes, WriteFrame and WriteFrameBuffered
\* with a payload longer than maxAllowed return no error and put out a frame
\* whose header states that length, with the whole payload behind it; a read
\* of that frame fails with frame too large.
C17_NoWriteCeiling ==
    /\ (last.op \in writes /\ BLen(last.pay) > maxAllowed /\ ~broken)
       => /\ last.err = nil
          /\ Uint32(Framed, 4) = BLen(last.pay)
          /\ Drop(Framed, headerLen) = last.pay
    /\ (prev.op = "WriteFrame" /\ prev.err = nil /\ CleanStart(prev)
        /\ BLen(prev.pay) > maxAllowed /\ last.op \in reads)
       => (last.err = ErrTooLarge /\ last.rtyp = 0 /\ last.rpay = nilSlice)

C17_Witness ==
    /\ prev.op = "WriteFrame" /\ prev.err = nil /\ CleanStart(prev)
    /\ BLen(prev.pay) = maxAllowed + 1
    /\ last.op = "ReadFrame" /\ last.err = ErrTooLarge
    /\ Declared(last) = maxAllowed + 1


\* The last call was a ReadFrameSharedBuffer whose header passed the checks.
SharedPastChecks ==
    /\ last.op = "ReadFrameSharedBuffer"
    /\ GoodHeader(last) /\ Declared(last) <= maxAllowed
\* f.rbuf is the buffer the call found.
SameBuffer == rbuf.cap = last.cap0 /\ rbuf.arr = last.arr0

\* C18: the shared read buffer's capacity never decreases; a
\* ReadFrameSharedBuffer of declared length L <= capacity allocates nothing;
\* one of L > capacity C replaces the buffer by a new one of capacity
\* max(2 * C, L); a payload it returns has length exactly L and lies in the
\* buffer; a header refused as too large, and every other call, leaves the
\* buffer as it was.
C18_Growth ==
    /\ rbuf.cap >= last.cap0
    /\ rbuf.arr # 0 => BLen(heap[rbuf.arr]) = rbuf.cap
    /\ (SharedPastChecks /\ Declared(last) <= last.cap0) => SameBuffer
    /\ (SharedPastChecks /\ Declared(last) > last.cap0)
       => /\ rbuf.cap = IF 2 * last.cap0 < Declared(last)
                        THEN Declared(last) ELSE 2 * last.cap0
          /\ rbuf.arr \notin {0, last.arr0, held.sl.arr}
    /\ (last.op = "ReadFrameSharedBuffer" /\ last.err = nil)
       => /\ last.rpay.len = Declared(last)
          /\ last.rpay.arr = rbuf.arr
    /\ ~SharedPastChecks => SameBuffer

C18_Witness ==
    /\ prev.op = "ReadFrameSharedBuffer" /\ prev.err = nil /\ prev.cap0 = 0
    /\ last.op = "ReadFrameSharedBuffer" /\ last.err = nil
    /\ last.cap0 = 3 /\ Declared(last) = 5
    /\ rbuf.cap = 6 /\ last.rpay.len = 5 /\ rbuf.arr # last.arr0


\* C19: two codecs over different streams share no state: the package-level
\* header array is never written, and however the calls of the two goroutines
\* interleave, each codec's transport, buffers and results after a call are
\* those the same calls give it with nothing else running.
C19_Isolated ==
    /\ hdrs[0] = zeroHeader
    /\ \A i \in Inst : run[i].pc = "idle" => inst[i] = alone[i]

C19_Witness ==
    /\ run[1].pc = "WriteFrame" /\ run[2].pc = "ReadFrame"
    /\ hdrs[1] # zeroHeader /\ hdrs[2] # zeroHeader /\ hdrs[1] # hdrs[2]


\* The reader as the last call found it.
AtEntry == [br |-> Take(last.unread0, last.rb0), wire |-> last.wire0,
            pulled |-> 0]
\* Result y, of the other read from the same reader state, is what the last
\* read returned: the same error, type and payload bytes, the same bytes
\* taken from the transport and left in the read buffer.
SameOutcome(y) ==
    /\ y.err = last.err
    /\ y.typ = last.rtyp
    /\ y.err = nil => (y.data = Returned /\ y.length = last.rpay.len)
    /\ y.st.br = br /\ y.st.wire = wire /\ y.st.pulled = last.pulled

\* C20: from the same reader state ReadFrame and ReadFrameSharedBuffer return
\* the same error, the same type and the same payload bytes and consume the
\* same bytes; they differ in where the payload is stored.
C20_SameOutcome ==
    /\ last.op = "ReadFrame" => SameOutcome(readFrameSharedBuffer(AtEntry))
    /\ last.op = "ReadFrameSharedBuffer" => SameOutcome(readFrame(AtEntry))
    /\ (last.op = "ReadFrame" /\ last.err = nil /\ last.rpay.len > 0)
       => last.rpay.arr # rbuf.arr
    /\ (last.op = "ReadFrameSharedBuffer" /\ last.err = nil)
       => last.rpay.arr = rbuf.arr

C20_Witness ==
    /\ prev.op = "ReadFrame" /\ prev.err = nil /\ prev.rtyp = 4
    /\ last.op = "ReadFrameSharedBuffer" /\ last.err = nil /\ last.rtyp = 5
    /\ last.rpay.len = 5 /\ last.rb0 > 0
    /\ readFrame(AtEntry).data = Returned


\* The frames passed so far, laid out one behind the other.
RECURSIVE LaidOut(_)
LaidOut(fs) ==
    IF fs = <<>> THEN <<>>
    ELSE Cat(Layout(Head(fs).typ, Head(fs).pay), LaidOut(Tail(fs)))
\* Sum of 8 + len(payload) over the frames.
RECURSIVE Sizes(_)
Sizes(fs) ==
    IF fs = <<>> THEN 0
    ELSE headerLen + BLen(Head(fs).pay) + Sizes(Tail(fs))

\* C21: while the writer has met no transport error, the bytes delivered to
\* the transport followed by the bytes in the write buffer are the encodings
\* of all frames passed to WriteFrame and WriteFrameBuffered so far, in call
\* order; the delivered bytes are a prefix of them, and the delivered count
\* plus WriteBuffered() is the sum of 8 + len(payload) over those frames.
C21_Conservation ==
    bw.err = nil
    => /\ Cat(delivered, bw.buf) = LaidOut(passed)
       /\ delivered = Take(LaidOut(passed), BLen(delivered))
       /\ BLen(delivered) + WriteBuffered = Sizes(passed)

C21_Witness ==
    /\ bw.err = nil /\ Len(passed) = 2
    /\ passed[1] # passed[2]
    /\ BLen(delivered) > headerLen + BLen(passed[1].pay)
    /\ WriteBuffered > 0 /\ WriteBuffered < headerLen + BLen(passed[2].pay)

====
